---- MODULE Spec2Model ----
(***************************************************************************)
(* Model of kivy/uix/effectwidget.py: the EffectWidget render-pass chain.  *)
(* One EffectFbo ("stage") per entry of EffectWidget.effects; each stage's *)
(* texture_rectangle samples the previous stage's texture; each effect     *)
(* pushes its assembled fragment shader into the stage stored in its fbo   *)
(* property.                                                               *)
(***************************************************************************)
EXTENDS Integers, Sequences, FiniteSets, TLC

\* ------------------------------------------------------------------ bounds
MaxLen == 2         \* longest effects list the application assigns

\* --------------------------------------------------------------- universes
EffectIds == {"effect_a", "effect_b"}   \* the effect objects of the application
PreFbo == 0                        \* self.fbo, the fbo the children draw into
RenderCtx == -1                    \* the RenderContext made in __init__
\* The EffectFbo objects are named by numbers.  fbo_list grows and shrinks at
\* its tail only, so the stage at index i is named i while it is in the list.
\* Once popped, an EffectFbo never returns to fbo_list and nothing reads its
\* fields again; an effect may still refer to it, and all such references
\* are to PoppedFbo, which stands for every EffectFbo outside the list.
StageIds == 1..MaxLen
PoppedFbo == MaxLen + 1
FboIds == {PreFbo} \cup StageIds \cup {PoppedFbo}
NoTexture == <<"None">>            \* texture_rectangle.texture before wiring
\* A texture is told from the others by the fbo that renders into it now;
\* a texture that a resize has replaced is no fbo's texture any more.
StaleTexture == <<"stale">>
Textures == {<<"texture_of", id>> : id \in FboIds}
\* glsl bodies: two of the module's effects and one that does not compile
GlslVals == {"effect_monochrome", "effect_invert", "glsl_bad"}
DefaultSize == <<100, 100>>
SizeVals == {<<100, 100>>, <<0, 100>>}
DefaultFs == <<"default_fs">>      \* fragment shader of a fresh Fbo
ChildIds == {"child_a"}            \* the widget the application adds
\* What carries the time and resolution uniforms: the canvases and the fbos.
UniformTargets == {RenderCtx} \cup FboIds
\* A target on which update_glsl never set the uniforms.
Unset == [time |-> "unset", resolution |-> <<>>]

VARIABLES
    effects,        \* EffectWidget.effects: sequence of effect ids
    fbo_list,       \* EffectWidget.fbo_list: sequence of stage ids
    size,           \* EffectWidget.size
    texture,        \* EffectWidget.texture
    fbo_size,       \* Fbo.size of every fbo
    shader_fs,      \* fbo.shader.fs of every fbo
    rect_size,      \* fbo_rectangle.size / texture_rectangle.size
    rect_texture,   \* texture_rectangle.texture of every stage
    canvas,         \* stages that are children of the widget's canvas
    effect_glsl,    \* EffectBase.glsl of every effect
    effect_fbo,     \* EffectBase.fbo of every effect: {} is None, else {id}
    self_canvas,    \* what self.canvas refers to: RenderCtx or PreFbo
    fbo_stages,     \* stages that are children of the pre-chain fbo
    child_in,       \* the canvas each child widget's canvas is in: {} or {c}
    uniforms,       \* the time and resolution uniforms of every target
    fx,             \* the parameterized effects and the EffectFromFile
    last            \* the last handler run: its name, events and outcome

vars == <<effects, fbo_list, size, texture, fbo_size, shader_fs,
          rect_size, rect_texture, canvas, effect_glsl, effect_fbo,
          self_canvas, fbo_stages, child_in, uniforms, fx, last>>

\* ----------------------------------------------------------------- helpers
Range(s) == {s[i] : i \in 1..Len(s)}

SeqsUpTo(S, n) == UNION {[1..k -> S] : k \in 0..n}

\* shader_header + shader_uniforms + glsl + shader_footer_effect
Assemble(glsl) == <<"shader_header", "shader_uniforms", glsl, "shader_footer_effect">>

\* shader.success after shader.fs = value
Compiles(value) == value = DefaultFs \/ (Len(value) = 4 /\ value[3] # "glsl_bad")

\* fbo.texture: the texture object the fbo currently renders into
Tex(st, id) == <<"texture_of", id>>

\* The name of the EffectFbo that the next append puts in fbo_list.
FreshFbo(st) == Len(st.fbo_list) + 1

\* Every reference to a texture of the fbos in gone now refers to a texture
\* that is no fbo's.
Forget(ref, gone) ==
    IF \E id \in gone : ref = <<"texture_of", id>> THEN StaleTexture ELSE ref

\* The program state as one record, so that the handlers are functions on it.
Cur ==
    [effects |-> effects, fbo_list |-> fbo_list, size |-> size,
     texture |-> texture, fbo_size |-> fbo_size,
     shader_fs |-> shader_fs, rect_size |-> rect_size,
     rect_texture |-> rect_texture, canvas |-> canvas,
     effect_glsl |-> effect_glsl, effect_fbo |-> effect_fbo,
     self_canvas |-> self_canvas, fbo_stages |-> fbo_stages,
     child_in |-> child_in, uniforms |-> uniforms, fx |-> fx,
     events |-> <<>>, raised |-> FALSE]

\* The members of a canvas's children, with those outside chain as PoppedFbo.
Members(children, chain) ==
    (children \cap chain)
        \cup (IF children \subseteq chain THEN {} ELSE {PoppedFbo})

\* The fbos that left fbo_list in this handler become PoppedFbo: the fields
\* of a popped fbo are dropped, an effect's or a canvas's reference to it
\* stays a reference to an fbo outside the list, and its texture is no
\* stage's texture.
Collect(st) ==
    LET chain == {PreFbo} \cup Range(st.fbo_list)
        gone == FboIds \ chain
    IN  [st EXCEPT !.canvas = Members(st.canvas, chain),
                   !.fbo_stages = Members(st.fbo_stages, chain),
                   !.uniforms =
                       [t \in UniformTargets |->
                           IF t \in gone THEN Unset ELSE st.uniforms[t]],
                   !.fbo_size =
                       [id \in FboIds |-> IF id \in chain THEN st.fbo_size[id]
                                          ELSE DefaultSize],
                   !.shader_fs =
                       [id \in FboIds |-> IF id \in chain THEN st.shader_fs[id]
                                          ELSE DefaultFs],
                   !.rect_size =
                       [id \in FboIds |-> IF id \in chain THEN st.rect_size[id]
                                          ELSE DefaultSize],
                   !.rect_texture =
                       [id \in FboIds |-> IF id \in chain
                                          THEN Forget(st.rect_texture[id], gone)
                                          ELSE NoTexture],
                   !.texture = Forget(st.texture, gone),
                   !.effect_fbo =
                       [e \in EffectIds |->
                           IF st.effect_fbo[e] \subseteq chain
                           THEN st.effect_fbo[e] ELSE {PoppedFbo}]]

Install(done, op) ==
    \E st \in {Collect(done)} :
    /\ effects' = st.effects
    /\ fbo_list' = st.fbo_list
    /\ size' = st.size
    /\ texture' = st.texture
    /\ fbo_size' = st.fbo_size
    /\ shader_fs' = st.shader_fs
    /\ rect_size' = st.rect_size
    /\ rect_texture' = st.rect_texture
    /\ canvas' = st.canvas
    /\ effect_glsl' = st.effect_glsl
    /\ effect_fbo' = st.effect_fbo
    /\ self_canvas' = st.self_canvas
    /\ fbo_stages' = st.fbo_stages
    /\ child_in' = st.child_in
    /\ uniforms' = st.uniforms
    /\ fx' = st.fx
    /\ last' = [op |-> op, events |-> st.events, raised |-> st.raised]

\* Fbo.size = value: a changed size drops the texture and allocates a new one.
FboSetSize(st, id, value) ==
    IF st.fbo_size[id] = value THEN st
    ELSE [st EXCEPT !.fbo_size[id] = value,
                    !.rect_texture =
                        [x \in FboIds |-> Forget(st.rect_texture[x], {id})],
                    !.texture = Forget(st.texture, {id})]

\* -------------------------------------------------------------- EffectFbo
\* What a handler did, in order: kind is "set_fs", "wire", "new" (an
\* EffectFbo created and appended) or "pop" (the last one removed), stage
\* the fbo it acted on, ok whether the shader compiled, kept whether the
\* shaders of all fbos are after the call what they were before it.
Event(kind, id, ok, kept) ==
    [kind |-> kind, stage |-> id, ok |-> ok, kept |-> kept]

\* set_fs without "shader.fs = old_value": the shader that failed stays.
set_fs_keeps_failed(st, id, value) ==
    LET result == [st.shader_fs EXCEPT ![id] = value]
        ok == Compiles(value)
    IN  [st EXCEPT !.shader_fs = result,
                   !.raised = ~ok,
                   !.events = Append(st.events,
                       Event("set_fs", id, ok, result = st.shader_fs))]

\* EffectFbo.set_fs: shader.fs = value; on a failed compile put old_value
\* back and raise.
set_fs(st, id, value) ==
    LET old_value == st.shader_fs[id]
        assigned == [st.shader_fs EXCEPT ![id] = value]
        ok == Compiles(value)
        result == IF ok THEN assigned ELSE [assigned EXCEPT ![id] = old_value]
    IN  [st EXCEPT !.shader_fs = result,
                   !.raised = ~ok,
                   !.events = Append(st.events,
                       Event("set_fs", id, ok, result = st.shader_fs))]

\* ------------------------------------------------------------- EffectBase
\* EffectBase.set_fbo_shader, the observer of the fbo and glsl properties.
set_fbo_shader(st, e) ==
    IF st.effect_fbo[e] = {} THEN st
    ELSE LET id == CHOOSE x \in st.effect_fbo[e] : TRUE
         IN  set_fs(st, id, Assemble(st.effect_glsl[e]))

\* effect.fbo = fbo that runs the observers on every assignment, changed
\* value or not.
set_effect_fbo_always(st, e, id) ==
    set_fbo_shader([st EXCEPT !.effect_fbo[e] = {id}], e)

\* effect.fbo = fbo: an ObjectProperty stores the value and runs its
\* observers only when the value differs from the stored one.
set_effect_fbo(st, e, id) ==
    IF st.effect_fbo[e] = {id} THEN st
    ELSE set_fbo_shader([st EXCEPT !.effect_fbo[e] = {id}], e)

\* ---------------------------------------------------- parameterized effects
\* One effect object of each parameterized class and one EffectFromFile, kept
\* in the record fx: every parameter with the glsl generated from it.
ParamVals == {2, 4, 10}            \* values given to pixel_size and size
OrderVals == {<<1, 2, 0>>, <<0, 1, 2>>, <<2, 2, 1>>}
SourceVals == {"", "missing.glsl", "shader.glsl"}
\* The paths that name a readable file of the application.
ResolvablePaths == {"shader.glsl"}

\* The names the module's import statements bind.
ModuleNames ==
    {"Clock", "Builder", "BoxLayout", "StringProperty", "ObjectProperty",
     "ListProperty", "NumericProperty", "RenderContext", "Fbo", "Color",
     "Rectangle", "Translate", "PushMatrix", "PopMatrix", "ClearColor",
     "ClearBuffers", "EventDispatcher", "EventLoop"}

\* float(n) as str.format prints it: the digits of n, a point and a zero.
Float(n) == <<n, ".", 0>>

\* template.format(*args): the template with its {} slots filled, in order.
Format(template, args) == <<template, args>>

\* {0: 'x', 1: 'y', 2: 'z'}[i]
Letter(i) == CASE i = 0 -> "x" [] i = 1 -> "y" [] i = 2 -> "z"

\* effect.glsl = value on the effect whose glsl is fx[field]: a
\* StringProperty, which stores the value and runs its observers only when
\* the value differs from the stored one.
SetFxGlsl(f, field, value) ==
    IF f[field] = value THEN f
    ELSE [f EXCEPT ![field] = value, !.notified = f.notified \cup {field}]

PixelateEffect_do_glsl(f) ==
    SetFxGlsl(f, "pixelate_glsl",
              Format("effect_pixelate", <<Float(f.pixel_size)>>))

HorizontalBlurEffect_do_glsl(f) ==
    SetFxGlsl(f, "hblur_glsl", Format("effect_blur_h", <<Float(f.hblur_size)>>))

VerticalBlurEffect_do_glsl(f) ==
    SetFxGlsl(f, "vblur_glsl", Format("effect_blur_h", <<Float(f.vblur_size)>>))

ChannelMixEffect_do_glsl(f) ==
    LET letters == [k \in 1..Len(f.order) |-> Letter(f.order[k])]
    IN  SetFxGlsl(f, "mix_glsl", Format("effect_mix", letters))

\* The on_<name> methods each class defines; a property runs the method
\* named after it when its value changes.
PixelateEffect_handlers == {"on_pixel_size"}
HorizontalBlurEffect_handlers == {"on_size"}
VerticalBlurEffect_handlers == {"on_size"}
ChannelMixEffect_handlers == {"on_size"}

\* effect.pixel_size = value
PixelateEffect_set_pixel_size(f, value) ==
    IF f.pixel_size = value THEN f
    ELSE LET f1 == [f EXCEPT !.pixel_size = value]
         IN  IF "on_pixel_size" \in PixelateEffect_handlers
             THEN PixelateEffect_do_glsl(f1) ELSE f1

\* effect.size = value on the HorizontalBlurEffect
HorizontalBlurEffect_set_size(f, value) ==
    IF f.hblur_size = value THEN f
    ELSE LET f1 == [f EXCEPT !.hblur_size = value]
         IN  IF "on_size" \in HorizontalBlurEffect_handlers
             THEN HorizontalBlurEffect_do_glsl(f1) ELSE f1

\* effect.size = value on the VerticalBlurEffect
VerticalBlurEffect_set_size(f, value) ==
    IF f.vblur_size = value THEN f
    ELSE LET f1 == [f EXCEPT !.vblur_size = value]
         IN  IF "on_size" \in VerticalBlurEffect_handlers
             THEN VerticalBlurEffect_do_glsl(f1) ELSE f1

\* effect.order = value on the ChannelMixEffect
ChannelMixEffect_set_order(f, value) ==
    IF f.order = value THEN f
    ELSE LET f1 == [f EXCEPT !.order = value]
         IN  IF "on_order" \in ChannelMixEffect_handlers
             THEN ChannelMixEffect_do_glsl(f1) ELSE f1

\* EffectFromFile.on_source, the observer of source.  A name the module
\* never bound raises NameError where it is evaluated.
on_source(f, value) ==
    IF value = "" THEN f
    ELSE IF "resource_find" \notin ModuleNames
         THEN [f EXCEPT !.report = "NameError"]
    ELSE IF value \notin ResolvablePaths
         THEN IF "Logger" \notin ModuleNames
              THEN [f EXCEPT !.report = "NameError"]
              ELSE [f EXCEPT !.report = "Logger.error"]
    ELSE SetFxGlsl(f, "file_glsl", <<"contents_of", value>>)

\* effect.source = value on the EffectFromFile
EffectFromFile_set_source(f, value) ==
    IF f.source = value THEN f
    ELSE on_source([f EXCEPT !.source = value], value)

\* The effects right after their constructors: each __init__ runs do_glsl on
\* the class defaults; the EffectFromFile has the glsl of EffectBase.
InitFx ==
    LET f0 == [pixel_size |-> 10, pixelate_glsl |-> <<"effect_trivial">>,
               hblur_size |-> 4, hblur_glsl |-> <<"effect_trivial">>,
               vblur_size |-> 4, vblur_glsl |-> <<"effect_trivial">>,
               order |-> <<1, 2, 0>>, mix_glsl |-> <<"effect_trivial">>,
               source |-> "", file_glsl |-> <<"effect_trivial">>,
               notified |-> {}, report |-> "none"]
        f1 == ChannelMixEffect_do_glsl(PixelateEffect_do_glsl(f0))
        f2 == VerticalBlurEffect_do_glsl(HorizontalBlurEffect_do_glsl(f1))
    IN  [f2 EXCEPT !.notified = {}]

\* The record fx as a handler finds it: nothing notified or reported yet.
Quiet(f) == [f EXCEPT !.notified = {}, !.report = "none"]

\* ------------------------------------------------------------ EffectWidget
\* One round of the first loop of refresh_fbo_setup: a new EffectFbo made
\* under "with self.canvas", so a child of what self.canvas refers to, with
\* its texture_rectangle, appended to fbo_list.
NewStage(st) ==
    LET id == FreshFbo(st)
    IN  [st EXCEPT !.fbo_size[id] = st.size,
                   !.shader_fs[id] = DefaultFs,
                   !.rect_size[id] = st.size,
                   !.rect_texture[id] = NoTexture,
                   !.uniforms[id] = Unset,
                   !.canvas = IF st.self_canvas = RenderCtx
                              THEN st.canvas \cup {id} ELSE st.canvas,
                   !.fbo_stages = IF st.self_canvas = PreFbo
                                  THEN st.fbo_stages \cup {id}
                                  ELSE st.fbo_stages,
                   !.fbo_list = Append(st.fbo_list, id),
                   !.events = Append(st.events, Event("new", id, TRUE, TRUE))]

\* The first loop as an "if": at most one new stage per reconciliation.
GrowOnce(st) ==
    IF Len(st.fbo_list) < Len(st.effects) THEN NewStage(st) ELSE st

RECURSIVE Grow(_)
Grow(st) ==
    IF Len(st.fbo_list) < Len(st.effects) THEN Grow(NewStage(st)) ELSE st

\* The second loop without canvas.remove(old_fbo).
PopStage_keeps_canvas(st) ==
    LET old_fbo == st.fbo_list[Len(st.fbo_list)]
    IN  [st EXCEPT !.fbo_list = SubSeq(st.fbo_list, 1, Len(st.fbo_list) - 1),
                   !.events = Append(st.events,
                       Event("pop", old_fbo, TRUE, TRUE))]

\* One round of the second loop: fbo_list.pop() and
\* self.canvas.remove(old_fbo), which takes old_fbo out of the children of
\* what self.canvas refers to.
PopStage(st) ==
    LET old_fbo == st.fbo_list[Len(st.fbo_list)]
    IN  [st EXCEPT !.fbo_list = SubSeq(st.fbo_list, 1, Len(st.fbo_list) - 1),
                   !.canvas = IF st.self_canvas = RenderCtx
                              THEN st.canvas \ {old_fbo} ELSE st.canvas,
                   !.fbo_stages = IF st.self_canvas = PreFbo
                                  THEN st.fbo_stages \ {old_fbo}
                                  ELSE st.fbo_stages,
                   !.events = Append(st.events,
                       Event("pop", old_fbo, TRUE, TRUE))]

RECURSIVE Shrink(_)
Shrink(st) ==
    IF Len(st.fbo_list) > Len(st.effects) THEN Shrink(PopStage(st)) ELSE st

\* The resizing without "texture_rectangle.size = self.size".
ResizeStage_fbo_only(st, id) == FboSetSize(st, id, st.size)

\* "Do resizing etc.": the pre-chain fbo, then every stage from index i on.
ResizeStage(st, id) ==
    LET s1 == FboSetSize(st, id, st.size)
    IN  [s1 EXCEPT !.rect_size[id] = st.size]

RECURSIVE ResizeStages(_, _)
ResizeStages(st, i) ==
    IF i > Len(st.fbo_list) THEN st
    ELSE ResizeStages(ResizeStage(st, st.fbo_list[i]), i + 1)

\* fbo.texture_rectangle.texture = tex
Wire(st, id, tex) ==
    [st EXCEPT !.rect_texture[id] = tex,
               !.events = Append(st.events,
                   Event("wire", id, TRUE, TRUE))]

\* for i in range(1, len(fbo_list)): wire stage i to stage i - 1
RECURSIVE WireStages(_, _)
WireStages(st, i) ==
    IF i > Len(st.fbo_list) THEN st
    ELSE WireStages(Wire(st, st.fbo_list[i], Tex(st, st.fbo_list[i - 1])),
                    i + 1)

\* for effect, fbo in zip(effects, fbo_list): effect.fbo = fbo
\* An exception raised by set_fs leaves the loop and the handler.
RECURSIVE BindStages(_, _)
BindStages(st, i) ==
    IF i > Len(st.fbo_list) \/ i > Len(st.effects) THEN st
    ELSE LET s1 == set_effect_fbo([st EXCEPT !.raised = FALSE],
                                  st.effects[i], st.fbo_list[i])
         IN  IF s1.raised THEN s1 ELSE BindStages(s1, i + 1)

\* The tail of refresh_fbo_setup, from "if len(self.fbo_list) == 0" on.
WireAndBind(st) ==
    IF Len(st.fbo_list) = 0
    THEN [st EXCEPT !.texture = Tex(st, PreFbo)]
    ELSE LET s1 == WireStages(st, 2)
             s2 == BindStages(s1, 1)
         IN  IF s2.raised THEN s2
             ELSE LET s3 == Wire(s2, s2.fbo_list[1], Tex(s2, PreFbo))
                  IN  [s3 EXCEPT !.texture =
                                     Tex(s3, s3.fbo_list[Len(s3.fbo_list)])]

\* refresh_fbo_setup that rebuilds the chain: every stage is popped and
\* len(effects) new ones are made.
refresh_fbo_setup_rebuilds(st) ==
    LET s0 == Shrink([st EXCEPT !.effects = <<>>])
        s1 == Grow([s0 EXCEPT !.effects = st.effects])
        s2 == ResizeStages(ResizeStage(s1, PreFbo), 1)
    IN  WireAndBind(s2)

\* EffectWidget.refresh_fbo_setup
refresh_fbo_setup(st) ==
    LET s1 == Shrink(Grow(st))
        s2 == ResizeStages(ResizeStage(s1, PreFbo), 1)
    IN  WireAndBind(s2)

\* glsl bound to refresh_fbo_setup as well, as _update_glsl_bindings would:
\* a change of glsl runs a whole reconciliation.
set_effect_glsl_refreshes(st, e, value) ==
    IF st.effect_glsl[e] = value THEN st
    ELSE LET s1 == set_fbo_shader([st EXCEPT !.effect_glsl[e] = value], e)
         IN  IF s1.raised THEN s1 ELSE refresh_fbo_setup(s1)

\* effect.glsl = value: a StringProperty, which stores the value and runs its
\* observer, set_fbo_shader, only when the value differs from the stored one.
set_effect_glsl(st, e, value) ==
    IF st.effect_glsl[e] = value THEN st
    ELSE set_fbo_shader([st EXCEPT !.effect_glsl[e] = value], e)

\* EffectWidget.on_size, run when the size property changes
on_size(st) ==
    refresh_fbo_setup(ResizeStage(st, PreFbo))

\* EffectWidget.on_effects, run when the effects list changes
on_effects(st) == refresh_fbo_setup(st)

\* [float(size) for size in self.size]
Floats(s) == <<Float(s[1]), Float(s[2])>>

\* The uniforms of a target that a tick passes over: the time it holds is
\* the clock's reading at an earlier tick.
Earlier(u) == IF u.time = "now" THEN [u EXCEPT !.time = "earlier"] ELSE u

\* update_glsl without its loop over fbo_list.
update_glsl_canvas_only(st) ==
    [st EXCEPT !.uniforms =
        [t \in UniformTargets |->
            IF t = st.self_canvas
            THEN [time |-> "now", resolution |-> Floats(st.size)]
            ELSE Earlier(st.uniforms[t])]]

\* EffectWidget.update_glsl, the tick: time is the clock's reading now.
update_glsl(st) ==
    LET resolution == Floats(st.size)
        targets == {st.self_canvas} \cup Range(st.fbo_list)
    IN  [st EXCEPT !.uniforms =
            [t \in UniformTargets |->
                IF t \in targets
                THEN [time |-> "now", resolution |-> resolution]
                ELSE Earlier(st.uniforms[t])]]

\* Widget.add_widget of the base class: a widget that has a parent already
\* is refused with an exception; else its canvas is added to self.canvas.
Widget_add_widget(st, w) ==
    IF st.child_in[w] # {} THEN [st EXCEPT !.raised = TRUE]
    ELSE [st EXCEPT !.child_in[w] = {st.self_canvas}]

\* Widget.remove_widget of the base class: nothing for a widget that is not
\* a child; else its canvas is removed from self.canvas.
Widget_remove_widget(st, w) ==
    IF st.child_in[w] = {} THEN st
    ELSE [st EXCEPT !.child_in[w] = st.child_in[w] \ {st.self_canvas}]

\* EffectWidget.add_widget: the statement after the super call is not
\* reached when the call raises.
add_widget(st, w) ==
    LET c == st.self_canvas
        s1 == Widget_add_widget([st EXCEPT !.self_canvas = PreFbo], w)
    IN  IF s1.raised THEN s1 ELSE [s1 EXCEPT !.self_canvas = c]

\* EffectWidget.remove_widget
remove_widget(st, w) ==
    LET c == st.self_canvas
        s1 == Widget_remove_widget([st EXCEPT !.self_canvas = PreFbo], w)
    IN  IF s1.raised THEN s1 ELSE [s1 EXCEPT !.self_canvas = c]

\* Widget.clear_widgets of the base class: self.remove_widget(child) for
\* every child, which is the method of EffectWidget.
RECURSIVE Widget_clear_widgets(_, _)
Widget_clear_widgets(st, todo) ==
    IF todo = {} \/ st.raised THEN st
    ELSE LET w == CHOOSE x \in todo : TRUE
         IN  Widget_clear_widgets(remove_widget(st, w), todo \ {w})

\* EffectWidget.clear_widgets
clear_widgets(st) ==
    LET c == st.self_canvas
        s1 == Widget_clear_widgets([st EXCEPT !.self_canvas = PreFbo],
                                   {w \in ChildIds : st.child_in[w] # {}})
    IN  IF s1.raised THEN s1 ELSE [s1 EXCEPT !.self_canvas = c]

\* --------------------------------------------------------------- behaviour
Init ==
    /\ effects = <<>>
    /\ fbo_list = <<>>
    /\ size = DefaultSize
    /\ texture = <<"texture_of", PreFbo>>
    /\ fbo_size = [id \in FboIds |-> DefaultSize]
    /\ shader_fs = [id \in FboIds |-> DefaultFs]
    /\ rect_size = [id \in FboIds |-> DefaultSize]
    /\ rect_texture = [id \in FboIds |-> NoTexture]
    /\ canvas = {}
    /\ effect_glsl = [e \in EffectIds |-> IF e = "effect_a"
                                           THEN "effect_monochrome"
                                           ELSE "effect_invert"]
    /\ effect_fbo = [e \in EffectIds |-> {}]
    /\ self_canvas = RenderCtx
    /\ fbo_stages = {}
    /\ child_in = [w \in ChildIds |-> {}]
    /\ uniforms = [t \in UniformTargets |-> Unset]
    /\ fx = InitFx
    /\ last = [op |-> "init", events |-> <<>>, raised |-> FALSE]

\* widget.effects = l
AssignEffects ==
    \E l \in SeqsUpTo(EffectIds, MaxLen) :
        /\ l # effects
        /\ Install(on_effects([Cur EXCEPT !.effects = l]), "on_effects")

\* widget.effects.insert(i - 1, e)  (append when i = len + 1)
InsertEffect ==
    \E i \in 1..(Len(effects) + 1), e \in EffectIds :
        LET l == SubSeq(effects, 1, i - 1) \o <<e>>
                     \o SubSeq(effects, i, Len(effects))
        IN  /\ Len(effects) < MaxLen
                /\ Install(on_effects([Cur EXCEPT !.effects = l]), "on_effects")

\* del widget.effects[i - 1]
RemoveEffect ==
    \E i \in 1..Len(effects) :
        LET l == SubSeq(effects, 1, i - 1) \o SubSeq(effects, i + 1, Len(effects))
        IN  Install(on_effects([Cur EXCEPT !.effects = l]), "on_effects")

\* widget.size = s
Resize ==
    \E s \in SizeVals :
        /\ s # size
        /\ Install(on_size([Cur EXCEPT !.size = s]), "on_size")

\* widget.refresh_fbo_setup() with nothing changed
Refresh ==
    Install(refresh_fbo_setup(Cur), "refresh_fbo_setup")

\* effect.glsl = g, for a g out of G
SetGlslIn(G) ==
    \E e \in EffectIds, g \in G :
        /\ g # effect_glsl[e]
        /\ Install(set_effect_glsl(Cur, e, g), "glsl")

SetGlsl == SetGlslIn(GlslVals)

\* effect.glsl = g for a g that compiles
SetGoodGlsl == SetGlslIn(GlslVals \ {"glsl_bad"})

Next ==
    \/ AssignEffects
    \/ InsertEffect
    \/ RemoveEffect
    \/ Resize
    \/ Refresh
    \/ SetGlsl

Spec == Init /\ [][Next]_vars

\* The program when every glsl an effect is given compiles.
NextGood ==
    \/ AssignEffects
    \/ InsertEffect
    \/ RemoveEffect
    \/ Resize
    \/ Refresh
    \/ SetGoodGlsl

SpecGood == Init /\ [][NextGood]_vars

\* The host's tick
Tick == Install(update_glsl(Cur), "update_glsl")

\* widget.add_widget(w)
AddWidget ==
    \E w \in ChildIds : Install(add_widget(Cur, w), "add_widget")

\* widget.remove_widget(w)
RemoveWidget ==
    \E w \in ChildIds : Install(remove_widget(Cur, w), "remove_widget")

\* widget.clear_widgets()
ClearWidgets == Install(clear_widgets(Cur), "clear_widgets")

\* The widget with its children and the tick; every effect's glsl stays
\* what its constructor set.
NextWidget ==
    \/ AssignEffects
    \/ Resize
    \/ Tick
    \/ AddWidget
    \/ RemoveWidget
    \/ ClearWidgets

SpecWidget == Init /\ [][NextWidget]_vars

\* A setter of an effect's parameter has run and left fx as f.
InstallFx(f, op) ==
    Install([Cur EXCEPT !.fx = f, !.raised = (f.report = "NameError")], op)

SetPixelSize ==
    \E v \in ParamVals :
        /\ v # fx.pixel_size
        /\ InstallFx(PixelateEffect_set_pixel_size(Quiet(fx), v), "pixel_size")

SetHorizontalSize ==
    \E v \in ParamVals :
        /\ v # fx.hblur_size
        /\ InstallFx(HorizontalBlurEffect_set_size(Quiet(fx), v), "hblur_size")

SetVerticalSize ==
    \E v \in ParamVals :
        /\ v # fx.vblur_size
        /\ InstallFx(VerticalBlurEffect_set_size(Quiet(fx), v), "vblur_size")

SetOrder ==
    \E v \in OrderVals :
        /\ v # fx.order
        /\ InstallFx(ChannelMixEffect_set_order(Quiet(fx), v), "order")

SetSource ==
    \E v \in SourceVals :
        /\ v # fx.source
        /\ InstallFx(EffectFromFile_set_source(Quiet(fx), v), "source")

\* The effect objects on their own, attached to no widget.
NextEffects ==
    \/ SetPixelSize
    \/ SetHorizontalSize
    \/ SetVerticalSize
    \/ SetOrder
    \/ SetSource

SpecEffects == Init /\ [][NextEffects]_vars

TypeOK ==
    /\ effects \in SeqsUpTo(EffectIds, MaxLen)
    /\ fbo_list \in SeqsUpTo(StageIds, MaxLen)
    /\ size \in SizeVals
    /\ texture \in Textures \cup {StaleTexture}
    /\ \A id \in FboIds : rect_texture[id] \in Textures \cup {StaleTexture, NoTexture}
    /\ canvas \subseteq StageIds \cup {PoppedFbo}
    /\ fbo_stages \subseteq StageIds \cup {PoppedFbo}
    /\ self_canvas \in {RenderCtx, PreFbo}
    /\ \A w \in ChildIds : child_in[w] \in {{}, {RenderCtx}, {PreFbo}}
    /\ \A e \in EffectIds : effect_fbo[e] \subseteq StageIds \cup {PoppedFbo}
    /\ fbo_list = [i \in 1..Len(fbo_list) |-> i]

\* ------------------------------------------------------------------ claims
\* The last handler was a run of refresh_fbo_setup, however it was triggered.
Reconciled == last.op \in {"on_effects", "on_size", "refresh_fbo_setup"}

\* ... and it ran to its end.
Completed == Reconciled /\ ~last.raised

Stages == 1..Len(fbo_list)

\* The set_fs calls of the last handler whose shader did not compile.
FailedCalls ==
    {k \in 1..Len(last.events) :
        last.events[k].kind = "set_fs" /\ ~last.events[k].ok}

\* The index in fbo_list of the stage an event acted on.
IndexOf(id) == CHOOSE i \in Stages : fbo_list[i] = id

\* The assembled source of the effect at index i.
SourceAt(i) == Assemble(effect_glsl[effects[i]])

\* C1: after every completed reconciliation, whatever triggered it and
\* whatever the lengths before, fbo_list has as many stages as effects has
\* entries.
C1_StageCountMatchesEffects ==
    Completed => Len(fbo_list) = Len(effects)

\* C1 witness: a reconciliation triggered by on_effects has completed and
\* has grown fbo_list to the longest effects list.
C1_Witness ==
    /\ Completed
    /\ last.op = "on_effects"
    /\ Len(effects) = MaxLen
    /\ Len(fbo_list) = MaxLen

\* C2 (as claimed): after a reconciliation, with no compile failure ever,
\* the shader bound to the stage at every index i is the assembled source
\* of effects[i].
C2_BoundShaderIsEffectSource ==
    Reconciled => \A i \in Stages : shader_fs[fbo_list[i]] = SourceAt(i)

\* C3 (as claimed): after every reconciliation with a non-empty list, stage
\* 0 samples the pre-chain fbo's texture and every later stage samples the
\* texture of the stage before it.
C3_LinearWiring ==
    (Reconciled /\ Len(effects) > 0) =>
        /\ rect_texture[fbo_list[1]] = Tex(Cur, PreFbo)
        /\ \A i \in Stages \ {1} :
               rect_texture[fbo_list[i]] = Tex(Cur, fbo_list[i - 1])

\* C4 (as claimed): after every reconciliation the widget's texture is the
\* last stage's texture, or the pre-chain fbo's when effects is empty, and
\* then fbo_list is empty.
C4_FinalTexture ==
    Reconciled =>
        IF Len(effects) = 0
        THEN texture = Tex(Cur, PreFbo) /\ fbo_list = <<>>
        ELSE Len(fbo_list) > 0
             /\ texture = Tex(Cur, fbo_list[Len(fbo_list)])

\* C5 (as claimed): refresh_fbo_setup called again right after a
\* reconciliation, with the same effects and size, changes nothing of the
\* chain: stages, wiring, bound shaders, final texture.
C5_Idempotent ==
    [][(Reconciled /\ last'.op = "refresh_fbo_setup") =>
          /\ fbo_list' = fbo_list
          /\ rect_texture' = rect_texture
          /\ shader_fs' = shader_fs
          /\ texture' = texture]_vars

\* C6: a set_fs call whose shader does not compile leaves every fbo's bound
\* shader what it was before the call: the stage's previous shader is active
\* again and no other stage's shader has changed.
C6_FailedCompileRestores ==
    \A k \in FailedCalls : last.events[k].kept

\* C6 witness: a compile failed on a stage of a two-stage chain that had an
\* effect's shader bound before, and still has it.
C6_Witness ==
    /\ Len(fbo_list) = 2
    /\ \E k \in FailedCalls :
           /\ last.events[k].stage \in Range(fbo_list)
           /\ shader_fs[last.events[k].stage] # DefaultFs
           /\ shader_fs[last.events[k].stage] # Assemble("glsl_bad")

\* C7 (as claimed): a compile failure on stage i during a reconciliation
\* does not abort it: the stages after i still get their effects' shaders
\* (those that compile), stage 0 samples the pre-chain texture and the
\* final texture is the last stage's.
C7_FailureDoesNotAbort ==
    (Reconciled /\ FailedCalls # {} /\ Len(fbo_list) > 0) =>
        /\ \A k \in FailedCalls : \A j \in Stages :
               (j > IndexOf(last.events[k].stage) /\ Compiles(SourceAt(j)))
                   => shader_fs[fbo_list[j]] = SourceAt(j)
        /\ rect_texture[fbo_list[1]] = Tex(Cur, PreFbo)
        /\ texture = Tex(Cur, fbo_list[Len(fbo_list)])

\* C8 (as claimed): within one reconciliation no set_fs on a stage comes
\* before the wiring of that stage's, or of an earlier stage's, input
\* texture (stage 0 included).
C8_WiredBeforeBound ==
    Reconciled =>
        \A p \in 1..Len(last.events) : \A i \in Stages :
            (last.events[p].kind = "set_fs"
                /\ last.events[p].stage \in Range(fbo_list)
                /\ i <= IndexOf(last.events[p].stage))
            => \E q \in 1..(p - 1) :
                   /\ last.events[q].kind = "wire"
                   /\ last.events[q].stage = fbo_list[i]

\* The effects whose glsl this step changes.
GlslChanged == {e \in EffectIds : effect_glsl'[e] # effect_glsl[e]}

\* C9 (as claimed): a change of the glsl of an effect that is not in the
\* effects list (it was removed, and reconciliation has run) changes the
\* shader bound to no stage of fbo_list.
C9_RemovedEffectIsUnsubscribed ==
    [][\A e \in GlslChanged :
           e \notin Range(effects) =>
               \A i \in Stages : shader_fs'[fbo_list[i]] = shader_fs[fbo_list[i]]]_vars

\* What a change of glsl leaves alone: the lists, the wiring, the final
\* texture, the sizes; and it runs no reconciliation (it wires nothing).
GlslFrame ==
    /\ effects' = effects
    /\ fbo_list' = fbo_list
    /\ rect_texture' = rect_texture
    /\ texture' = texture
    /\ fbo_size' = fbo_size
    /\ canvas' = canvas
    /\ last'.op = "glsl"
    /\ \A k \in 1..Len(last'.events) : last'.events[k].kind = "set_fs"

FormatArgs(glsl) == glsl[2]

\* C11 (as claimed): the glsl of every parameterized effect is generated
\* from the current value of its parameter (pixel_size, size, size, order),
\* and the setter that has just run has notified the glsl subscribers.
C11_GlslFollowsParameter ==
    /\ FormatArgs(fx.pixelate_glsl) = <<Float(fx.pixel_size)>>
    /\ FormatArgs(fx.hblur_glsl) = <<Float(fx.hblur_size)>>
    /\ FormatArgs(fx.vblur_glsl) = <<Float(fx.vblur_size)>>
    /\ FormatArgs(fx.mix_glsl) = [k \in 1..Len(fx.order) |-> Letter(fx.order[k])]
    /\ (last.op \in {"pixel_size", "hblur_size", "vblur_size", "order"}
           => fx.notified # {})

\* The uniforms a target holds right after a tick that set them.
Current == [time |-> "now", resolution |-> Floats(size)]

C13_ChildOpsRestoreCanvas ==
    last.op \in {"add_widget", "remove_widget", "clear_widgets"} =>
        /\ \A w \in ChildIds : child_in[w] \subseteq {PreFbo}
        /\ self_canvas = RenderCtx

\* C14: after every reconciliation, the one run by on_size included, the
\* size of every stage and of its texture_rectangle, and the size of the
\* pre-chain fbo and of fbo_rectangle, are the widget's size.
C14_SizesMatchWidget ==
    Reconciled =>
        \A id \in {PreFbo} \cup Range(fbo_list) :
            fbo_size[id] = size /\ rect_size[id] = size

\* C14 witness: a reconciliation run by on_size on the longest chain has
\* changed the sizes.
C14_Witness ==
    /\ last.op = "on_size"
    /\ Len(fbo_list) = MaxLen
    /\ size # DefaultSize
    /\ fbo_size[fbo_list[MaxLen]] = size

\* C15 (as claimed): no stage and not the pre-chain fbo ever has a size with
\* a component <= 0.
C15_NoNonPositiveSize ==
    \A id \in {PreFbo} \cup Range(fbo_list) :
        fbo_size[id][1] > 0 /\ fbo_size[id][2] > 0

\* C16 (as claimed): when source is set to a path that cannot be resolved,
\* the error is reported through the Logger and the setter returns, the glsl
\* of the effect keeps its value and no stage's bound shader changes; the
\* empty string changes nothing.
C16_UnresolvedSourceIsReported ==
    [][(last'.op = "source" /\ fx'.source \notin ResolvablePaths) =>
          /\ fx'.file_glsl = fx.file_glsl
          /\ shader_fs' = shader_fs
          /\ IF fx'.source = "" THEN fx'.report = "none" /\ ~last'.raised
             ELSE fx'.report = "Logger.error" /\ ~last'.raised]_vars

\* This step assigns effects a different order of the same, pairwise
\* distinct, effects.
IsReorder ==
    /\ effects' # effects
    /\ Len(effects') = Len(effects)
    /\ Range(effects') = Range(effects)
    /\ Cardinality(Range(effects)) = Len(effects)

\* C17 (as claimed): after the effects are reordered and the reconciliation
\* has run, the stage at every index i is bound to the source of the effect
\* now at index i (where that source compiles), and the wiring is linear.
C17_ReorderFollowsList ==
    [][IsReorder =>
          /\ \A i \in 1..Len(fbo_list') :
                 Compiles(Assemble(effect_glsl'[effects'[i]])) =>
                     shader_fs'[fbo_list'[i]] =
                         Assemble(effect_glsl'[effects'[i]])
          /\ rect_texture'[fbo_list'[1]] = <<"texture_of", PreFbo>>
          /\ \A i \in 2..Len(fbo_list') :
                 rect_texture'[fbo_list'[i]] =
                     <<"texture_of", fbo_list'[i - 1]>>]_vars

\* C18 (as claimed): the glsl of the VerticalBlurEffect is generated from
\* effect_blur_v, and differs from the glsl of a HorizontalBlurEffect of the
\* same size.
C18_VerticalKernelDiffers ==
    last.op = "vblur_size" =>
        /\ fx.vblur_glsl[1] = "effect_blur_v"
        /\ (fx.vblur_size = fx.hblur_size => fx.vblur_glsl # fx.hblur_glsl)

\* The stages the events of one kind in a log acted on, and their number.
EventsOf(log, kind) == {k \in 1..Len(log) : log[k].kind = kind}
StagesOf(log, kind) == {log[k].stage : k \in EventsOf(log, kind)}

Max0(n) == IF n > 0 THEN n ELSE 0
Min(a, b) == IF a < b THEN a ELSE b

\* C19: a reconciliation that takes the effects list from length L0 to L1
\* keeps the first min(L0, L1) stages of fbo_list where they are, creates
\* and appends exactly max(0, L1 - L0) stages and removes exactly the
\* max(0, L0 - L1) trailing ones.
C19_TailOnly ==
    [][last'.op \in {"on_effects", "on_size", "refresh_fbo_setup"} =>
          LET L0 == Len(effects)
              L1 == Len(effects')
              m == Min(L0, L1)
          IN  /\ SubSeq(fbo_list', 1, m) = SubSeq(fbo_list, 1, m)
              /\ Len(fbo_list') = L1
              /\ Cardinality(EventsOf(last'.events, "new")) = Max0(L1 - L0)
              /\ Cardinality(EventsOf(last'.events, "pop")) = Max0(L0 - L1)
              /\ StagesOf(last'.events, "new") =
                     {fbo_list'[i] : i \in (L0 + 1)..L1}
              /\ StagesOf(last'.events, "pop") =
                     {fbo_list[i] : i \in (L1 + 1)..L0}]_vars

\* C19 witness: a reconciliation has created stages behind a stage that was
\* there before and still has its effect's shader.
C19_Witness ==
    /\ last.op = "on_effects"
    /\ Len(fbo_list) = MaxLen
    /\ Cardinality(EventsOf(last.events, "new")) = MaxLen - 1
    /\ EventsOf(last.events, "pop") = {}
    /\ shader_fs[fbo_list[1]] # DefaultFs

AttachedInOrder ==
    /\ Cardinality(Range(effects)) = Len(effects)
    /\ Len(fbo_list) = Len(effects)
    /\ \A i \in 1..Len(effects) : effect_fbo[effects[i]] = {fbo_list[i]}

\* C21: a reconciliation run by a change of size alone, on a list of
\* pairwise distinct effects each attached to the stage at its index, calls
\* set_fs on no stage and leaves every stage's bound shader as it was.
C21_ResizeIssuesNoSetFs ==
    [][(last'.op = "on_size" /\ size' # size /\ effects' = effects
            /\ AttachedInOrder) =>
          /\ EventsOf(last'.events, "set_fs") = {}
          /\ fbo_list' = fbo_list
          /\ \A i \in 1..Len(fbo_list) :
                 shader_fs'[fbo_list[i]] = shader_fs[fbo_list[i]]]_vars

\* C21 witness: a resize has just reconciled the longest chain of distinct,
\* attached effects, whose stages carry their effects' shaders, and has
\* wired the stages without a set_fs.
C21_Witness ==
    /\ last.op = "on_size"
    /\ ~last.raised
    /\ Len(fbo_list) = MaxLen
    /\ AttachedInOrder
    /\ EventsOf(last.events, "wire") # {}
    /\ EventsOf(last.events, "set_fs") = {}
    /\ \A i \in 1..Len(fbo_list) : shader_fs[fbo_list[i]] = SourceAt(i)

====
